---------------------------- MODULE Spec2Model ----------------------------
(***************************************************************************)
(* Descriptor keys of elements-miniscript (src/descriptor/key.rs): the     *)
(* textual parser, the serializer, wildcard derivation, the private to     *)
(* public conversion and the key-source matcher.                           *)
(*                                                                         *)
(* Text is a sequence of one-character strings, so that splitting on ']'   *)
(* and '/', the length gates and the "pub" substring test are computed on  *)
(* characters exactly as the code computes them on bytes.  The primitives  *)
(* of the bitcoin crate (base58 extended keys, raw keys, secp256k1) are    *)
(* tables over a small set of real keys; every table entry was computed    *)
(* with BIP32 and agrees with the literals of the unit tests.              *)
(***************************************************************************)
EXTENDS Integers, Sequences, FiniteSets, TLC

(***************************************************************************)
(* Bounds of the model.                                                    *)
(***************************************************************************)
\* number of '/'-separated tokens after an extended key literal
MaxPathTokens == 3
\* number of steps of an observed key-source path handed to matches
MaxObsLen == 3

(***************************************************************************)
(* Option<T> and Result<T, DescriptorKeyParseError>.                       *)
(***************************************************************************)
None == <<>>

Some(v) == <<v>>

Ok(v) == [ok |-> TRUE, val |-> v, err |-> ""]

Err(msg) == [ok |-> FALSE, val |-> <<>>, err |-> msg]

(***************************************************************************)
(* str primitives of the standard library.                                 *)
(***************************************************************************)
\* the byte of a character (as_bytes)
Ord ==
    ("\t" :> 9) @@ (" " :> 32) @@ ("!" :> 33) @@ ("\"" :> 34) @@ ("#" :> 35) @@ ("$" :> 36) @@
    ("%" :> 37) @@ ("&" :> 38) @@ ("'" :> 39) @@ ("(" :> 40) @@ (")" :> 41) @@ ("*" :> 42) @@
    ("+" :> 43) @@ ("," :> 44) @@ ("-" :> 45) @@ ("." :> 46) @@ ("/" :> 47) @@ ("0" :> 48) @@
    ("1" :> 49) @@ ("2" :> 50) @@ ("3" :> 51) @@ ("4" :> 52) @@ ("5" :> 53) @@ ("6" :> 54) @@
    ("7" :> 55) @@ ("8" :> 56) @@ ("9" :> 57) @@ (":" :> 58) @@ (";" :> 59) @@ ("<" :> 60) @@
    ("=" :> 61) @@ (">" :> 62) @@ ("?" :> 63) @@ ("@" :> 64) @@ ("A" :> 65) @@ ("B" :> 66) @@
    ("C" :> 67) @@ ("D" :> 68) @@ ("E" :> 69) @@ ("F" :> 70) @@ ("G" :> 71) @@ ("H" :> 72) @@
    ("I" :> 73) @@ ("J" :> 74) @@ ("K" :> 75) @@ ("L" :> 76) @@ ("M" :> 77) @@ ("N" :> 78) @@
    ("O" :> 79) @@ ("P" :> 80) @@ ("Q" :> 81) @@ ("R" :> 82) @@ ("S" :> 83) @@ ("T" :> 84) @@
    ("U" :> 85) @@ ("V" :> 86) @@ ("W" :> 87) @@ ("X" :> 88) @@ ("Y" :> 89) @@ ("Z" :> 90) @@
    ("[" :> 91) @@ ("\\" :> 92) @@ ("]" :> 93) @@ ("^" :> 94) @@ ("_" :> 95) @@ ("a" :> 97) @@
    ("b" :> 98) @@ ("c" :> 99) @@ ("d" :> 100) @@ ("e" :> 101) @@ ("f" :> 102) @@
    ("g" :> 103) @@ ("h" :> 104) @@ ("i" :> 105) @@ ("j" :> 106) @@ ("k" :> 107) @@
    ("l" :> 108) @@ ("m" :> 109) @@ ("n" :> 110) @@ ("o" :> 111) @@ ("p" :> 112) @@
    ("q" :> 113) @@ ("r" :> 114) @@ ("s" :> 115) @@ ("t" :> 116) @@ ("u" :> 117) @@
    ("v" :> 118) @@ ("w" :> 119) @@ ("x" :> 120) @@ ("y" :> 121) @@ ("z" :> 122) @@
    ("{" :> 123) @@ ("|" :> 124) @@ ("}" :> 125) @@ ("~" :> 126)

\* str::split(d): the pieces between the occurrences of d, at least one piece
Split(s, d) ==
    LET P == {i \in 1..Len(s) : s[i] = d}
        n == Cardinality(P)
        pos(k) == IF k = 0 THEN 0
                  ELSE IF k = n + 1 THEN Len(s) + 1
                  ELSE CHOOSE i \in P : Cardinality({j \in P : j < i}) = k - 1
    IN  [k \in 1..(n + 1) |-> SubSeq(s, pos(k - 1) + 1, pos(k) - 1)]

\* str::contains(pat)
Contains(s, pat) ==
    \E i \in 1..(Len(s) - Len(pat) + 1) : SubSeq(s, i, i + Len(pat) - 1) = pat

IsDigit(c) == c \in {"0", "1", "2", "3", "4", "5", "6", "7", "8", "9"}

IsHexDigit(c) ==
    \/ IsDigit(c)
    \/ c \in {"a", "b", "c", "d", "e", "f"}
    \/ c \in {"A", "B", "C", "D", "E", "F"}

HexVal(c) ==
    IF IsDigit(c) THEN Ord[c] - 48
    ELSE IF c \in {"a", "b", "c", "d", "e", "f"} THEN Ord[c] - 87
    ELSE Ord[c] - 55

HexDigits == <<"0", "1", "2", "3", "4", "5", "6", "7", "8", "9", "a", "b", "c", "d", "e", "f">>

\* format!("{:02x}", byte)
LowerHex02(byte) == <<HexDigits[(byte \div 16) + 1], HexDigits[(byte % 16) + 1]>>

\* the lower-case form of a hex text (what decoding then encoding yields)
ToLowerHex(s) == [i \in 1..Len(s) |-> IF IsHexDigit(s[i]) THEN HexDigits[HexVal(s[i]) + 1] ELSE s[i]]

\* format!("{}", n) for an unsigned integer
RECURSIVE DecStr(_)
DecStr(n) == IF n < 10 THEN <<HexDigits[n + 1]>> ELSE Append(DecStr(n \div 10), HexDigits[(n % 10) + 1])

(***************************************************************************)
(* bip32::ChildNumber.  A child number is its index below 2^31 and its     *)
(* hardened flag.                                                          *)
(***************************************************************************)
\* 2^31 - 1, the largest index of a normal or of a hardened child
MaxChildIndex == 2147483647

Normal(i) == [index |-> i, hardened |-> FALSE]

Hardened(i) == [index |-> i, hardened |-> TRUE]

is_normal(c) == ~c.hardened

\* the value of a run of decimal digits, or -1 once it exceeds MaxChildIndex
RECURSIVE DecVal(_)
DecVal(s) ==
    IF s = <<>> THEN 0
    ELSE LET hi == DecVal(SubSeq(s, 1, Len(s) - 1))
             d == Ord[s[Len(s)]] - 48
         IN  IF hi < 0 \/ hi > (MaxChildIndex - d) \div 10 THEN -1 ELSE hi * 10 + d

\* u32::from_str followed by from_normal_idx / from_hardened_idx: an optional
\* '+', at least one digit, nothing else, and an index below 2^31
Index_from_str(s) ==
    LET digits == IF s # <<>> /\ s[1] = "+" THEN Tail(s) ELSE s
        checked(index) == IF index < 0 THEN Err("InvalidChildNumber") ELSE Ok(index)
    IN  IF digits = <<>> \/ \E i \in 1..Len(digits) : ~IsDigit(digits[i]) THEN Err("InvalidChildNumberFormat")
        ELSE checked(DecVal(digits))

\* bip32::ChildNumber::from_str: a final ' or h marks a hardened child
ChildNumber_from_str(inp) ==
    LET is_hardened == inp # <<>> /\ inp[Len(inp)] \in {"'", "h"}
        tagged(idx) == IF ~idx.ok THEN idx
                       ELSE Ok([index |-> idx.val, hardened |-> is_hardened])
    IN  tagged(Index_from_str(IF is_hardened THEN SubSeq(inp, 1, Len(inp) - 1) ELSE inp))

\* fmt::Display for bip32::ChildNumber
ChildNumber_fmt(c) == IF c.hardened THEN Append(DecStr(c.index), "'") ELSE DecStr(c.index)

\* collect::<Result<DerivationPath, _>>() over map(ChildNumber::from_str)
RECURSIVE DerivationPath_collect(_)
DerivationPath_collect(toks) ==
    IF toks = <<>> THEN Ok(<<>>)
    ELSE LET cons(c, rest) == IF ~c.ok THEN c
                              ELSE IF ~rest.ok THEN rest
                              ELSE Ok(<<c.val>> \o rest.val)
         IN  cons(ChildNumber_from_str(Head(toks)), DerivationPath_collect(Tail(toks)))

(***************************************************************************)
(* bip32::Fingerprint: four bytes.                                         *)
(***************************************************************************)
\* Fingerprint::from_hex: exactly eight hex digits, either case
Fingerprint_from_hex(s) ==
    IF Len(s) # 8 \/ \E i \in 1..Len(s) : ~IsHexDigit(s[i]) THEN Err("hex")
    ELSE Ok([i \in 1..4 |-> HexVal(s[2 * i - 1]) * 16 + HexVal(s[2 * i])])

(***************************************************************************)
(* Key literals.                                                           *)
(***************************************************************************)
\* "xpub6ERApfZwUNrhLCkDtcHTcxd75RbzS1ed54G1LkBUHQVHQKqhMkhgbmJbZRkrgZw4koxb5JaHWkY4ALHY2grBGRjaDMzQLcgJvLJuZZvRcEL"
XPUB6ERA ==
    <<"x","p","u","b","6","E","R","A","p","f","Z","w","U","N","r","h","L","C","k","D","t","c",
     "H","T","c","x","d","7","5","R","b","z","S","1","e","d","5","4","G","1","L","k","B","U",
     "H","Q","V","H","Q","K","q","h","M","k","h","g","b","m","J","b","Z","R","k","r","g","Z",
     "w","4","k","o","x","b","5","J","a","H","W","k","Y","4","A","L","H","Y","2","g","r","B",
     "G","R","j","a","D","M","z","Q","L","c","g","J","v","L","J","u","Z","Z","v","R","c","E",
     "L">>

\* "tprv8ZgxMBicQKsPcwcD4gSnMti126ZiETsuX7qwrtMypr6FBwAP65puFn4v6c3jrN9VwtMRMph6nyT63NrfUL4C3nBzPcduzVSuHD7zbX2JKVc"
TPRV8ZGX ==
    <<"t","p","r","v","8","Z","g","x","M","B","i","c","Q","K","s","P","c","w","c","D","4","g",
     "S","n","M","t","i","1","2","6","Z","i","E","T","s","u","X","7","q","w","r","t","M","y",
     "p","r","6","F","B","w","A","P","6","5","p","u","F","n","4","v","6","c","3","j","r","N",
     "9","V","w","t","M","R","M","p","h","6","n","y","T","6","3","N","r","f","U","L","4","C",
     "3","n","B","z","P","c","d","u","z","V","S","u","H","D","7","z","b","X","2","J","K","V",
     "c">>

\* "03f28773c2d975288bc7d1d205c3748651b075fbc6610e58cddeeddf8f19405aa8"
PK03F287 ==
    <<"0","3","f","2","8","7","7","3","c","2","d","9","7","5","2","8","8","b","c","7","d","1",
     "d","2","0","5","c","3","7","4","8","6","5","1","b","0","7","5","f","b","c","6","6","1",
     "0","e","5","8","c","d","d","e","e","d","d","f","8","f","1","9","4","0","5","a","a","8">>

\* "03F28773C2D975288BC7D1D205C3748651B075FBC6610E58CDDEEDDF8F19405AA8"
PK03F287_UPPER ==
    <<"0","3","F","2","8","7","7","3","C","2","D","9","7","5","2","8","8","B","C","7","D","1",
     "D","2","0","5","C","3","7","4","8","6","5","1","B","0","7","5","F","B","C","6","6","1",
     "0","E","5","8","C","D","D","E","E","D","D","F","8","F","1","9","4","0","5","A","A","8">>

\* "0279be667ef9dcbbac55a06295ce870b07029bfcdb2dce28d959f2815b16f81798"
PK0279BE ==
    <<"0","2","7","9","b","e","6","6","7","e","f","9","d","c","b","b","a","c","5","5","a","0",
     "6","2","9","5","c","e","8","7","0","b","0","7","0","2","9","b","f","c","d","b","2","d",
     "c","e","2","8","d","9","5","9","f","2","8","1","5","b","1","6","f","8","1","7","9","8">>

\* "0777777777777777777777777777777777777777777777777777777777777777777777777777777777777777777777777777777777777777777777777777777777"
PK0777 ==
    <<"0","7","7","7","7","7","7","7","7","7","7","7","7","7","7","7","7","7","7","7","7","7",
     "7","7","7","7","7","7","7","7","7","7","7","7","7","7","7","7","7","7","7","7","7","7",
     "7","7","7","7","7","7","7","7","7","7","7","7","7","7","7","7","7","7","7","7","7","7",
     "7","7","7","7","7","7","7","7","7","7","7","7","7","7","7","7","7","7","7","7","7","7",
     "7","7","7","7","7","7","7","7","7","7","7","7","7","7","7","7","7","7","7","7","7","7",
     "7","7","7","7","7","7","7","7","7","7","7","7","7","7","7","7","7","7","7","7">>

\* "KwDiBf89QgGbjEhKnhXJuH7LrciVrZi3qYjgd9M7rFU73sVHnoWn"
WIF_KWDIBF ==
    <<"K","w","D","i","B","f","8","9","Q","g","G","b","j","E","h","K","n","h","X","J","u","H",
     "7","L","r","c","i","V","r","Z","i","3","q","Y","j","g","d","9","M","7","r","F","U","7",
     "3","s","V","H","n","o","W","n">>

\* "L32jTfVLei6BYTPUpwpJSkrHx8iL9GZzeErVS8y4Y"
WIF_L32JTF ==
    <<"L","3","2","j","T","f","V","L","e","i","6","B","Y","T","P","U","p","w","p","J","S","k",
     "r","H","x","8","i","L","9","G","Z","z","e","E","r","V","S","8","y","4","Y">>

(***************************************************************************)
(* bip32 extended keys.  A key is the master literal it descends from, the *)
(* steps derived on it so far and whether it still holds the secret.       *)
(* XKeyTable gives the base58 text and the fingerprint of every key the    *)
(* model can produce from its inputs.                                      *)
(***************************************************************************)
XKeyTable == {
    [xkey |-> [master |-> "xpub6ERA", steps |-> <<>>, private |-> FALSE],
     fingerprint |-> <<49,165,7,184>>,
     text |->
       <<"x","p","u","b","6","E","R","A","p","f","Z","w","U","N","r","h","L","C","k","D","t",
        "c","H","T","c","x","d","7","5","R","b","z","S","1","e","d","5","4","G","1","L","k","B",
        "U","H","Q","V","H","Q","K","q","h","M","k","h","g","b","m","J","b","Z","R","k","r","g",
        "Z","w","4","k","o","x","b","5","J","a","H","W","k","Y","4","A","L","H","Y","2","g","r",
        "B","G","R","j","a","D","M","z","Q","L","c","g","J","v","L","J","u","Z","Z","v","R","c",
        "E","L">>],
    [xkey |-> [master |-> "tprv8Zgx", steps |-> <<>>, private |-> TRUE],
     fingerprint |-> <<44,190,42,109>>,
     text |->
       <<"t","p","r","v","8","Z","g","x","M","B","i","c","Q","K","s","P","c","w","c","D","4",
        "g","S","n","M","t","i","1","2","6","Z","i","E","T","s","u","X","7","q","w","r","t","M",
        "y","p","r","6","F","B","w","A","P","6","5","p","u","F","n","4","v","6","c","3","j","r",
        "N","9","V","w","t","M","R","M","p","h","6","n","y","T","6","3","N","r","f","U","L","4",
        "C","3","n","B","z","P","c","d","u","z","V","S","u","H","D","7","z","b","X","2","J","K",
        "V","c">>],
    [xkey |-> [master |-> "tprv8Zgx", steps |-> <<>>, private |-> FALSE],
     fingerprint |-> <<44,190,42,109>>,
     text |->
       <<"t","p","u","b","D","6","N","z","V","b","k","r","Y","h","Z","4","W","Q","d","z","x",
        "L","7","N","m","J","N","7","b","8","5","e","P","o","4","p","6","R","S","j","9","Q","Q",
        "H","F","7","t","e","2","R","R","9","i","U","e","V","S","G","g","n","G","k","o","U","s",
        "B","9","L","B","R","o","s","g","v","N","b","j","R","v","9","b","c","s","J","g","z","g",
        "B","d","7","Q","K","u","x","D","m","2","3","Z","e","w","k","T","R","z","N","S","L","E",
        "D","r">>],
    [xkey |-> [master |-> "tprv8Zgx", steps |-> <<Hardened(1)>>, private |-> FALSE],
     fingerprint |-> <<178,168,210,153>>,
     text |->
       <<"t","p","u","b","D","8","b","C","f","T","z","c","n","1","C","B","3","M","i","b","e",
        "W","Y","w","1","x","V","S","T","j","d","q","7","2","V","u","e","7","8","h","v","C","3",
        "F","J","K","V","n","r","v","U","g","b","Z","C","Z","w","A","s","4","c","G","f","Z","3",
        "W","4","a","u","B","o","f","X","n","q","b","c","Q","8","p","x","W","d","7","7","x","i",
        "7","J","m","e","t","6","5","N","E","j","G","M","X","M","D","i","L","q","C","L","v","f",
        "8","g">>],
    [xkey |-> [master |-> "tprv8Zgx", steps |-> <<Hardened(0)>>, private |-> FALSE],
     fingerprint |-> <<233,55,139,135>>,
     text |->
       <<"t","p","u","b","D","8","b","C","f","T","z","c","n","1","C","A","z","W","6","E","Y",
        "8","y","X","a","8","P","y","D","n","7","5","D","i","E","V","m","N","L","E","b","u","Z",
        "7","f","X","3","W","F","x","9","e","g","z","H","T","Q","n","2","W","j","a","n","3","S",
        "W","T","1","F","t","Z","y","3","K","S","r","p","h","D","8","T","q","V","f","Q","E","6",
        "Y","C","B","J","c","t","T","P","F","g","t","X","T","9","9","v","d","h","4","5","x","k",
        "V","5">>],
    [xkey |-> [master |-> "tprv8Zgx", steps |-> <<Normal(1), Hardened(1)>>, private |-> FALSE],
     fingerprint |-> <<28,143,238,95>>,
     text |->
       <<"t","p","u","b","D","B","U","H","t","J","g","1","i","8","6","X","E","1","p","M","v",
        "V","T","i","m","3","C","a","R","y","W","a","n","t","n","W","X","P","y","f","H","R","G",
        "F","z","K","V","X","V","A","E","6","m","5","D","3","K","1","v","5","X","L","F","o","3",
        "5","R","o","6","h","f","F","T","Y","h","8","K","C","p","e","a","a","r","u","x","X","4",
        "F","M","M","n","y","L","E","a","S","Z","M","m","U","J","z","K","A","5","1","H","L","m",
        "G","8">>],
    [xkey |-> [master |-> "tprv8Zgx", steps |-> <<Normal(1), Hardened(0)>>, private |-> FALSE],
     fingerprint |-> <<95,151,110,94>>,
     text |->
       <<"t","p","u","b","D","B","U","H","t","J","g","1","i","8","6","X","C","L","u","c","G",
        "F","6","b","u","C","m","X","c","D","y","d","d","y","D","3","7","W","h","6","R","X","Z",
        "H","P","z","h","6","R","J","A","4","2","m","G","8","e","R","4","y","y","o","F","v","5",
        "4","L","q","B","8","D","R","J","o","V","6","i","L","c","C","V","m","o","o","3","t","K",
        "z","2","M","E","o","p","U","M","X","1","j","X","p","1","2","a","S","M","N","Z","1","4",
        "r","s">>],
    [xkey |-> [master |-> "tprv8Zgx", steps |-> <<Hardened(1), Hardened(1)>>, private |-> FALSE],
     fingerprint |-> <<46,163,33,13>>,
     text |->
       <<"t","p","u","b","D","B","T","R","k","E","M","E","F","k","U","b","h","S","N","p","a",
        "s","2","b","2","M","h","w","x","c","r","x","R","d","g","C","Z","Z","i","h","q","4","F",
        "6","f","m","S","F","s","A","i","W","L","d","o","k","k","D","E","c","4","U","z","o","k",
        "b","c","w","4","T","K","L","T","W","1","6","9","5","f","g","J","N","D","9","U","F","t",
        "T","q","m","g","u","P","v","N","G","R","R","K","2","z","P","g","S","h","P","Q","1","C",
        "i","7">>],
    [xkey |-> [master |-> "tprv8Zgx", steps |-> <<Hardened(1), Hardened(0)>>, private |-> FALSE],
     fingerprint |-> <<225,247,182,138>>,
     text |->
       <<"t","p","u","b","D","B","T","R","k","E","M","E","F","k","U","b","d","J","7","u","k",
        "U","D","B","T","k","W","k","b","y","b","s","D","9","T","N","J","C","x","1","q","V","g",
        "1","Q","N","g","Q","6","U","a","G","4","a","P","F","q","X","4","s","H","Z","H","b","k",
        "g","x","Q","c","P","u","P","U","U","H","X","6","C","e","f","G","n","L","W","j","M","K",
        "7","o","w","a","x","z","v","X","E","Z","j","y","T","u","9","k","X","X","G","9","Y","i",
        "T","b">>],
    [xkey |-> [master |-> "tprv8Zgx", steps |-> <<Hardened(0), Hardened(1)>>, private |-> FALSE],
     fingerprint |-> <<186,126,2,215>>,
     text |->
       <<"t","p","u","b","D","B","r","g","j","c","x","B","x","n","X","y","L","5","7","5","s",
        "H","d","k","p","K","o","h","W","u","5","q","H","K","o","Q","7","T","J","X","K","N","r",
        "Y","z","n","h","5","f","V","E","G","B","v","8","9","h","A","8","E","N","W","7","A","8",
        "M","F","V","p","F","U","S","v","g","L","q","c","4","N","j","1","W","Z","c","p","e","P",
        "X","6","r","r","x","v","i","V","t","P","o","w","v","M","u","G","F","5","r","d","T","2",
        "V","i">>],
    [xkey |-> [master |-> "tprv8Zgx", steps |-> <<Hardened(0), Hardened(0)>>, private |-> FALSE],
     fingerprint |-> <<253,209,9,88>>,
     text |->
       <<"t","p","u","b","D","B","r","g","j","c","x","B","x","n","X","y","K","9","B","n","d",
        "F","j","P","r","w","n","E","r","S","z","9","5","x","a","z","Y","b","g","a","2","3","k",
        "p","4","5","b","G","e","V","a","f","M","G","C","R","u","i","A","Z","m","N","d","N","P",
        "D","J","F","S","K","S","g","b","k","o","Z","P","A","Q","z","z","G","y","C","b","L","J",
        "6","A","A","Z","E","B","L","a","b","o","k","E","B","L","j","z","g","f","L","3","E","W",
        "q","A">>],
    [xkey |-> [master |-> "tprv8Zgx", steps |-> <<Normal(1), Normal(1), Hardened(1)>>, private |-> FALSE],
     fingerprint |-> <<36,212,84,49>>,
     text |->
       <<"t","p","u","b","D","C","f","C","8","N","q","v","V","q","F","d","T","3","M","s","7",
        "h","d","e","M","k","Y","F","J","3","D","7","K","C","Z","4","s","Y","Y","z","J","F","f",
        "i","5","x","J","X","i","J","a","c","y","7","u","i","w","n","d","5","b","E","u","7","3",
        "M","D","B","h","b","d","L","b","k","C","C","z","a","S","p","v","U","h","C","C","S","A",
        "o","X","G","c","k","E","5","d","m","z","u","s","L","8","t","3","A","q","M","k","j","i",
        "p","7">>],
    [xkey |-> [master |-> "tprv8Zgx", steps |-> <<Normal(1), Normal(1), Hardened(0)>>, private |-> FALSE],
     fingerprint |-> <<1,103,223,149>>,
     text |->
       <<"t","p","u","b","D","C","f","C","8","N","q","v","V","q","F","d","Q","a","9","8","5",
        "D","w","F","m","s","Q","k","m","2","3","e","5","7","j","u","7","F","j","Z","x","v","k",
        "b","T","T","x","X","h","M","v","U","R","L","9","t","5","s","a","q","s","m","w","d","Q",
        "A","i","s","r","g","g","S","N","z","L","d","Y","k","K","V","x","e","D","2","b","K","u",
        "T","5","6","o","J","X","s","v","o","m","Q","q","F","F","p","C","P","U","Q","R","K","u",
        "V","2">>],
    [xkey |-> [master |-> "tprv8Zgx", steps |-> <<Normal(1), Hardened(1), Hardened(1)>>, private |-> FALSE],
     fingerprint |-> <<234,210,158,103>>,
     text |->
       <<"t","p","u","b","D","C","E","a","J","H","z","G","n","u","f","p","8","f","M","H","X",
        "c","c","F","t","V","b","V","G","N","2","P","L","s","W","H","M","K","Q","2","E","R","8",
        "z","r","M","k","8","b","y","z","9","D","q","D","C","z","v","r","b","o","M","J","H","F",
        "V","z","P","b","r","J","v","v","n","3","S","6","4","1","i","p","E","6","j","p","m","2",
        "7","7","R","Q","C","z","z","s","v","V","X","J","4","x","N","q","N","N","p","Q","4","Q",
        "e","k">>],
    [xkey |-> [master |-> "tprv8Zgx", steps |-> <<Normal(1), Hardened(1), Hardened(0)>>, private |-> FALSE],
     fingerprint |-> <<209,232,164,71>>,
     text |->
       <<"t","p","u","b","D","C","E","a","J","H","z","G","n","u","f","p","4","H","5","e","5",
        "N","9","v","J","p","b","T","6","f","4","H","T","b","c","r","5","v","z","U","t","2","3",
        "d","v","T","5","f","a","o","S","1","m","k","G","t","G","Y","n","Q","p","Z","b","6","W",
        "s","y","c","5","p","j","w","T","J","J","r","p","n","8","P","D","6","U","A","i","B","p",
        "q","V","2","j","R","U","e","S","z","o","3","B","7","n","p","H","Z","o","B","J","o","A",
        "D","8">>],
    [xkey |-> [master |-> "tprv8Zgx", steps |-> <<Normal(1), Hardened(0), Hardened(1)>>, private |-> FALSE],
     fingerprint |-> <<39,243,61,126>>,
     text |->
       <<"t","p","u","b","D","C","j","9","f","a","c","S","L","E","D","H","x","d","2","J","7",
        "M","Y","D","3","P","V","2","h","W","P","W","c","o","A","x","M","H","H","Y","w","X","C",
        "2","8","w","j","2","W","N","w","d","C","u","B","v","o","x","A","3","e","o","e","a","R",
        "5","c","G","w","D","P","Z","V","Q","L","Q","7","H","u","8","z","J","S","1","F","1","5",
        "s","w","7","L","u","K","t","q","C","j","U","1","F","s","Y","W","e","w","Q","J","L","U",
        "x","y">>],
    [xkey |-> [master |-> "tprv8Zgx", steps |-> <<Normal(1), Hardened(0), Hardened(0)>>, private |-> FALSE],
     fingerprint |-> <<163,94,146,147>>,
     text |->
       <<"t","p","u","b","D","C","j","9","f","a","c","S","L","E","D","H","t","w","o","r","z",
        "g","F","6","s","x","Z","7","p","D","e","o","v","J","o","W","z","8","M","Z","Q","C","F",
        "4","3","M","r","z","y","z","E","z","Z","F","F","y","A","U","W","z","w","f","B","H","o",
        "7","x","7","k","h","U","Y","o","i","T","Q","f","e","i","w","2","y","M","c","B","W","M",
        "w","f","Q","q","4","z","1","X","z","1","n","g","L","W","t","h","R","c","2","P","v","D",
        "E","R">>],
    [xkey |-> [master |-> "tprv8Zgx", steps |-> <<Hardened(1), Normal(1), Hardened(1)>>, private |-> FALSE],
     fingerprint |-> <<113,253,170,243>>,
     text |->
       <<"t","p","u","b","D","D","n","E","8","a","H","U","r","p","x","7","S","N","2","4","x",
        "7","r","a","n","G","w","v","V","x","7","u","t","t","V","j","a","R","k","j","S","L","o",
        "S","V","Y","7","h","U","R","P","D","W","C","y","4","D","x","q","q","h","w","U","a","R",
        "P","e","U","z","5","1","r","V","L","c","2","S","C","V","y","s","c","M","s","u","q","n",
        "f","J","z","C","N","z","q","F","Y","F","6","w","s","k","Q","3","g","z","b","6","D","A",
        "T","X">>],
    [xkey |-> [master |-> "tprv8Zgx", steps |-> <<Hardened(1), Normal(1), Hardened(0)>>, private |-> FALSE],
     fingerprint |-> <<53,255,138,247>>,
     text |->
       <<"t","p","u","b","D","D","n","E","8","a","H","U","r","p","x","7","Q","o","B","e","Z",
        "U","L","e","W","u","R","J","u","q","f","s","3","N","9","n","J","e","B","z","h","V","8",
        "i","S","J","e","L","Z","Q","X","n","R","w","b","e","a","o","W","v","P","6","S","n","B",
        "6","n","d","5","6","a","y","w","A","D","t","U","m","Q","p","5","a","s","i","Z","W","p",
        "q","T","g","R","A","p","J","j","F","2","i","p","H","r","q","k","r","b","Z","f","3","S",
        "2","Y">>],
    [xkey |-> [master |-> "tprv8Zgx", steps |-> <<Hardened(1), Hardened(1), Hardened(1)>>, private |-> FALSE],
     fingerprint |-> <<26,216,75,138>>,
     text |->
       <<"t","p","u","b","D","C","N","H","D","o","1","X","N","T","D","G","B","p","m","h","T",
        "a","P","2","7","1","T","6","R","H","p","j","u","f","P","y","5","v","d","A","h","c","4",
        "C","Q","N","k","i","o","J","k","1","3","2","3","s","t","q","G","y","t","F","K","u","K",
        "W","x","Q","D","7","o","K","h","t","K","X","g","J","s","N","n","x","F","V","2","Q","5",
        "9","t","G","N","H","j","a","f","W","6","w","n","o","B","B","1","8","Q","s","N","U","a",
        "B","s">>],
    [xkey |-> [master |-> "tprv8Zgx", steps |-> <<Hardened(1), Hardened(1), Hardened(0)>>, private |-> FALSE],
     fingerprint |-> <<72,226,5,194>>,
     text |->
       <<"t","p","u","b","D","C","N","H","D","o","1","X","N","T","D","G","8","r","c","Y","M",
        "q","V","T","c","h","a","q","C","P","E","p","y","e","R","i","k","B","S","3","P","B","6",
        "G","P","r","k","5","p","w","i","6","f","V","y","L","G","P","m","L","s","z","1","v","e",
        "N","v","z","b","o","Y","2","Y","j","V","E","i","v","U","4","U","c","x","Q","f","N","5",
        "v","J","A","c","j","L","A","4","V","S","K","P","d","4","R","j","j","u","v","N","o","v",
        "q","P">>],
    [xkey |-> [master |-> "tprv8Zgx", steps |-> <<Hardened(1), Hardened(0), Hardened(1)>>, private |-> FALSE],
     fingerprint |-> <<81,237,87,226>>,
     text |->
       <<"t","p","u","b","D","D","g","j","M","4","R","R","1","V","T","J","v","n","3","Y","j",
        "f","Z","d","E","n","X","j","F","S","q","3","q","a","s","X","n","T","w","r","L","o","V",
        "4","U","f","E","n","8","b","N","w","o","E","t","Q","c","9","s","5","2","P","y","U","u",
        "Y","Q","5","h","H","f","X","U","s","K","F","o","p","q","t","q","r","P","g","1","T","m",
        "v","G","j","A","r","j","9","D","H","2","T","d","H","M","D","d","4","J","M","5","b","5",
        "2","r">>],
    [xkey |-> [master |-> "tprv8Zgx", steps |-> <<Hardened(1), Hardened(0), Hardened(0)>>, private |-> FALSE],
     fingerprint |-> <<23,22,249,213>>,
     text |->
       <<"t","p","u","b","D","D","g","j","M","4","R","R","1","V","T","J","s","w","a","j","3",
        "o","T","R","9","s","9","8","n","S","a","o","g","D","V","g","L","U","K","L","V","4","N",
        "V","r","F","4","k","9","U","4","Y","s","Z","F","8","w","k","U","v","p","d","r","q","d",
        "z","d","1","k","3","p","H","f","L","k","v","o","T","K","b","x","9","T","S","s","Q","V",
        "o","q","C","z","N","y","X","u","c","D","i","s","S","3","w","J","U","D","3","u","E","D",
        "7","4">>],
    [xkey |-> [master |-> "tprv8Zgx", steps |-> <<Hardened(0), Normal(1), Hardened(1)>>, private |-> FALSE],
     fingerprint |-> <<203,207,140,139>>,
     text |->
       <<"t","p","u","b","D","D","i","S","s","D","1","H","8","p","7","E","r","F","T","H","v",
        "c","b","V","K","p","W","C","a","u","U","C","S","o","d","6","p","Q","s","L","y","o","q",
        "e","c","n","T","s","F","U","B","m","m","b","M","L","J","x","5","m","a","u","9","b","L",
        "B","q","6","5","B","w","N","H","g","c","V","U","8","Z","C","s","r","L","G","C","N","7",
        "3","2","X","i","6","o","L","X","T","Y","y","o","5","X","7","p","D","Z","2","Z","J","x",
        "n","q">>],
    [xkey |-> [master |-> "tprv8Zgx", steps |-> <<Hardened(0), Normal(1), Hardened(0)>>, private |-> FALSE],
     fingerprint |-> <<222,192,38,203>>,
     text |->
       <<"t","p","u","b","D","D","i","S","s","D","1","H","8","p","7","E","m","e","8","L","E",
        "b","B","B","u","J","z","5","W","R","h","y","2","3","A","h","k","F","F","a","S","9","Y",
        "f","W","z","8","J","c","t","6","T","c","B","Z","t","5","h","C","F","a","D","y","i","t",
        "X","9","f","N","J","y","R","w","M","i","V","T","R","k","a","g","9","R","M","e","X","t",
        "d","t","d","i","9","x","4","5","p","m","Z","L","L","c","s","x","s","x","L","z","M","m",
        "U","L">>],
    [xkey |-> [master |-> "tprv8Zgx", steps |-> <<Hardened(0), Hardened(1), Hardened(1)>>, private |-> FALSE],
     fingerprint |-> <<131,162,147,154>>,
     text |->
       <<"t","p","u","b","D","D","P","u","H","4","6","r","v","4","d","b","B","R","D","r","q",
        "w","p","r","e","x","Q","G","B","G","z","1","G","r","4","a","J","W","c","t","R","V","4",
        "z","S","U","8","k","i","E","7","U","p","A","X","5","g","x","R","g","c","1","D","d","y",
        "U","j","U","Z","5","K","j","v","q","B","d","c","s","7","Q","z","q","m","y","z","L","e",
        "T","1","2","E","E","s","R","F","e","Z","p","5","6","J","L","g","4","z","V","Q","L","m",
        "X","V">>],
    [xkey |-> [master |-> "tprv8Zgx", steps |-> <<Hardened(0), Hardened(1), Hardened(0)>>, private |-> FALSE],
     fingerprint |-> <<77,251,5,99>>,
     text |->
       <<"t","p","u","b","D","D","P","u","H","4","6","r","v","4","d","b","A","e","b","1","P",
        "K","D","v","H","5","C","g","R","x","b","p","m","q","o","T","x","5","y","v","n","K","Y",
        "b","j","j","m","u","j","q","q","6","a","H","X","b","4","5","k","q","A","9","C","W","6",
        "T","o","5","T","G","k","k","A","p","P","d","J","P","L","9","q","T","v","T","9","x","h",
        "B","f","2","p","E","c","C","b","p","p","h","n","F","C","q","i","p","C","o","K","E","9",
        "W","A">>],
    [xkey |-> [master |-> "tprv8Zgx", steps |-> <<Hardened(0), Hardened(0), Hardened(1)>>, private |-> FALSE],
     fingerprint |-> <<170,25,223,26>>,
     text |->
       <<"t","p","u","b","D","D","t","b","w","S","5","p","E","9","S","X","m","4","m","u","m",
        "o","b","T","z","v","M","k","E","y","W","S","4","2","f","C","X","V","Y","X","U","k","m",
        "z","S","p","W","N","8","h","a","o","V","t","J","H","x","f","C","1","c","5","8","P","J",
        "V","z","F","5","o","N","2","A","m","A","Y","c","r","h","a","K","m","B","o","k","o","j",
        "S","1","m","6","X","u","N","2","E","B","A","L","f","i","q","P","Q","q","c","1","N","6",
        "P","C">>],
    [xkey |-> [master |-> "tprv8Zgx", steps |-> <<Hardened(0), Hardened(0), Hardened(0)>>, private |-> FALSE],
     fingerprint |-> <<52,78,108,170>>,
     text |->
       <<"t","p","u","b","D","D","t","b","w","S","5","p","E","9","S","X","j","z","b","q","R",
        "E","o","8","9","z","M","g","R","B","V","Q","f","Q","K","6","K","5","e","1","f","m","F",
        "P","6","P","h","R","4","M","G","E","p","3","9","Z","P","X","g","L","5","A","P","M","y",
        "Z","M","c","g","c","K","F","A","t","V","E","z","D","5","Y","k","D","q","u","h","8","R",
        "B","p","Z","M","u","s","j","9","x","Y","e","p","M","s","c","V","r","i","C","A","i","J",
        "L","i">>]
}

HasText(xkey) == \E e \in XKeyTable : e.xkey = xkey

\* fmt::Display for ExtendedPubKey / ExtendedPrivKey
XKey_fmt(xkey) == (CHOOSE e \in XKeyTable : e.xkey = xkey).text

\* ExtendedPubKey::from_str (K = "ExtendedPubKey") and ExtendedPrivKey::from_str
XKey_from_str(K, s) ==
    LET decoded(hits) == IF hits = {} THEN Err("base58") ELSE Ok((CHOOSE e \in hits : TRUE).xkey)
    IN  decoded({e \in XKeyTable : e.text = s /\ e.xkey.private = (K = "ExtendedPrivKey")})

\* can_derive_hardened answering true for the public key type too
can_derive_hardened_any(K) == K \in {"ExtendedPubKey", "ExtendedPrivKey"}

\* InnerXKey::can_derive_hardened
can_derive_hardened(K) == K = "ExtendedPrivKey"

\* InnerXKey::xkey_fingerprint: the hash of the public key, the same for a
\* private key and its public half
xkey_fingerprint(xkey) ==
    (CHOOSE e \in XKeyTable : e.xkey.master = xkey.master /\ e.xkey.steps = xkey.steps).fingerprint

\* ExtendedPrivKey::derive_priv: one child-key derivation per step; secp_ok is
\* the outcome of the secp256k1 tweaks, which cannot fail when there is no step
derive_priv(xkey, path, secp_ok) ==
    IF path # <<>> /\ ~secp_ok THEN Err("secp256k1")
    ELSE Ok([xkey EXCEPT !.steps = @ \o path])

\* ExtendedPubKey::from_private
ExtendedPubKey_from_private(xprv) == [xprv EXCEPT !.private = FALSE]

(***************************************************************************)
(* Raw keys.                                                               *)
(***************************************************************************)
\* the points the model knows to be on the curve, in canonical hex
PublicKeys == {PK03F287, PK0279BE}

\* bitcoin::PublicKey::from_str: 66 or 130 hex digits of a point of the curve
PublicKey_from_str(s) ==
    LET on_curve(point) == IF point \notin PublicKeys THEN Err("secp256k1") ELSE Ok(point)
    IN  IF Len(s) \notin {66, 130} \/ \E i \in 1..Len(s) : ~IsHexDigit(s[i]) THEN Err("hex")
        ELSE on_curve(ToLowerHex(s))

\* fmt::Display for bitcoin::PublicKey
PublicKey_fmt(key) == key

\* the WIF texts that decode (base58check) to a private key
PrivateKeys == {WIF_KWDIBF}

\* bitcoin::PrivateKey::from_str
PrivateKey_from_str(s) == IF s \in PrivateKeys THEN Ok(s) ELSE Err("base58")

\* fmt::Display for bitcoin::PrivateKey
PrivateKey_fmt(key) == key

\* bitcoin::PrivateKey::public_key
PrivateKey_public_key(key) == CASE key = WIF_KWDIBF -> PK0279BE

(***************************************************************************)
(* The descriptor keys.                                                    *)
(***************************************************************************)
DescriptorSinglePub(origin, key) == [variant |-> "SinglePub", origin |-> origin, key |-> key]

DescriptorSinglePriv(origin, key) == [variant |-> "SinglePriv", origin |-> origin, key |-> key]

\* DescriptorXKey<K>, under the variant of the enum that holds it
DescriptorXKey(variant, origin, xkey, derivation_path, is_wildcard) ==
    [variant |-> variant, origin |-> origin, xkey |-> xkey,
     derivation_path |-> derivation_path, is_wildcard |-> is_wildcard]

(***************************************************************************)
(* Parsing.                                                                *)
(***************************************************************************)
\* parse_xkey_origin that reads the key after the origin and ignores what
\* follows a further ']'
parse_xkey_origin_first_key(s) ==
    LET with_origin(parts) ==
            LET with_raw_origin(raw_origin) ==
                    LET with_key(parent_fingerprint, origin_path) ==
                            IF ~parent_fingerprint.ok
                            THEN Err("Malformed master fingerprint, expected 8 hex chars")
                            ELSE IF ~origin_path.ok
                            THEN Err("Error while parsing master derivation path")
                            ELSE IF Len(parts) < 2 THEN Err("No key after origin.")
                            ELSE Ok(<<parts[2],
                                      Some(<<parent_fingerprint.val, origin_path.val>>)>>)
                    IN  IF Len(raw_origin) < 1
                        THEN Err("No master fingerprint found after '['")
                        ELSE IF Len(raw_origin[1]) # 8
                        THEN Err("Master fingerprint should be 8 characters long")
                        ELSE with_key(Fingerprint_from_hex(raw_origin[1]),
                                      DerivationPath_collect(Tail(raw_origin)))
            IN  IF Len(parts) < 1 THEN Err("Unclosed '['")
                ELSE with_raw_origin(Split(parts[1], "/"))
    IN  IF \E i \in 1..Len(s) : Ord[s[i]] < 20 \/ Ord[s[i]] > 127
        THEN Err("Encountered an unprintable character")
        ELSE IF s = <<>> THEN Err("Empty key")
        ELSE IF s[1] = "[" THEN with_origin(Split(Tail(s), "]"))
        ELSE Ok(<<s, None>>)

\* DescriptorXKey::parse_xkey_origin: Ok(<<key part, origin>>) or an error
parse_xkey_origin(s) ==
    LET with_origin(parts) ==
            LET with_raw_origin(raw_origin) ==
                    LET with_key(parent_fingerprint, origin_path) ==
                            IF ~parent_fingerprint.ok
                            THEN Err("Malformed master fingerprint, expected 8 hex chars")
                            ELSE IF ~origin_path.ok
                            THEN Err("Error while parsing master derivation path")
                            ELSE IF Len(parts) < 2 THEN Err("No key after origin.")
                            ELSE IF Len(parts) > 2
                            THEN Err("Multiple ']' in Descriptor Public Key")
                            ELSE Ok(<<parts[2],
                                      Some(<<parent_fingerprint.val, origin_path.val>>)>>)
                    IN  IF Len(raw_origin) < 1
                        THEN Err("No master fingerprint found after '['")
                        ELSE IF Len(raw_origin[1]) # 8
                        THEN Err("Master fingerprint should be 8 characters long")
                        ELSE with_key(Fingerprint_from_hex(raw_origin[1]),
                                      DerivationPath_collect(Tail(raw_origin)))
            IN  IF Len(parts) < 1 THEN Err("Unclosed '['")
                ELSE with_raw_origin(Split(parts[1], "/"))
    IN  IF \E i \in 1..Len(s) : Ord[s[i]] < 20 \/ Ord[s[i]] > 127
        THEN Err("Encountered an unprintable character")
        ELSE IF s = <<>> THEN Err("Empty key")
        ELSE IF s[1] = "[" THEN with_origin(Split(Tail(s), "]"))
        ELSE Ok(<<s, None>>)

\* filter_map_collect that lets tokens follow a wildcard
RECURSIVE filter_map_collect_after_wildcard(_, _, _)
filter_map_collect_after_wildcard(toks, is_wildcard, path) ==
    IF toks = <<>> THEN Ok([path |-> path, is_wildcard |-> is_wildcard])
    ELSE LET p == Head(toks)
             push(c) == IF ~c.ok THEN Err("Error while parsing key derivation path")
                        ELSE filter_map_collect_after_wildcard(Tail(toks), is_wildcard,
                                                               Append(path, c.val))
         IN  IF ~is_wildcard /\ p = <<"*">>
             THEN filter_map_collect_after_wildcard(Tail(toks), TRUE, path)
             ELSE IF ~is_wildcard /\ p = <<"*", "'">>
             THEN Err("Hardened derivation is currently not supported.")
             ELSE push(ChildNumber_from_str(p))

\* the filter_map closure of parse_xkey_deriv and the collect that stops at
\* its first error: Ok([path, is_wildcard]) or that error
RECURSIVE filter_map_collect(_, _, _)
filter_map_collect(toks, is_wildcard, path) ==
    IF toks = <<>> THEN Ok([path |-> path, is_wildcard |-> is_wildcard])
    ELSE LET p == Head(toks)
             push(c) == IF ~c.ok THEN Err("Error while parsing key derivation path")
                        ELSE filter_map_collect(Tail(toks), is_wildcard, Append(path, c.val))
         IN  IF ~is_wildcard /\ p = <<"*">>
             THEN filter_map_collect(Tail(toks), TRUE, path)
             ELSE IF ~is_wildcard /\ p = <<"*", "'">>
             THEN Err("Hardened derivation is currently not supported.")
             ELSE IF is_wildcard
             THEN Err("'*' may only appear as last element in a derivation path.")
             ELSE push(ChildNumber_from_str(p))

\* parse_xkey_deriv that rejects a public key's path only when all of its
\* steps are hardened
parse_xkey_deriv_all_hardened(K, key_deriv) ==
    LET with_split(toks) ==
            LET with_xkey(xkey, steps) ==
                    IF ~xkey.ok THEN Err("Error while parsing xkey.")
                    ELSE IF ~steps.ok THEN steps
                    ELSE IF /\ ~can_derive_hardened(K)
                            /\ steps.val.path # <<>>
                            /\ \A i \in 1..Len(steps.val.path) : ~is_normal(steps.val.path[i])
                    THEN Err("Hardened derivation is currently not supported.")
                    ELSE Ok(<<xkey.val, steps.val.path, steps.val.is_wildcard>>)
            IN  IF Len(toks) < 1 THEN Err("No key found after origin description")
                ELSE with_xkey(XKey_from_str(K, toks[1]),
                               filter_map_collect(Tail(toks), FALSE, <<>>))
    IN  with_split(Split(key_deriv, "/"))

\* DescriptorXKey::<K>::parse_xkey_deriv: Ok(<<xkey, derivation_path, is_wildcard>>)
parse_xkey_deriv(K, key_deriv) ==
    LET with_split(toks) ==
            LET with_xkey(xkey, steps) ==
                    IF ~xkey.ok THEN Err("Error while parsing xkey.")
                    ELSE IF ~steps.ok THEN steps
                    ELSE IF /\ ~can_derive_hardened(K)
                            /\ ~(\A i \in 1..Len(steps.val.path) : is_normal(steps.val.path[i]))
                    THEN Err("Hardened derivation is currently not supported.")
                    ELSE Ok(<<xkey.val, steps.val.path, steps.val.is_wildcard>>)
            IN  IF Len(toks) < 1 THEN Err("No key found after origin description")
                ELSE with_xkey(XKey_from_str(K, toks[1]),
                               filter_map_collect(Tail(toks), FALSE, <<>>))
    IN  with_split(Split(key_deriv, "/"))

\* the shortest text DescriptorPublicKey::from_str reads
MinPublicKeyLen == 66

\* FromStr for DescriptorPublicKey
DescriptorPublicKey_from_str(s) ==
    LET with_key_part(key_part, origin) ==
            LET xpub(deriv) ==
                    IF ~deriv.ok THEN deriv
                    ELSE Ok(DescriptorXKey("XPub", origin,
                                           deriv.val[1], deriv.val[2], deriv.val[3]))
                single(key) ==
                    IF ~key.ok THEN Err("Error while parsing simple public key")
                    ELSE Ok(DescriptorSinglePub(origin, key.val))
            IN  IF Contains(key_part, <<"p", "u", "b">>)
                THEN xpub(parse_xkey_deriv("ExtendedPubKey", key_part))
                ELSE IF /\ Len(key_part) >= 2
                        /\ SubSeq(key_part, 1, 2) \notin {<<"0", "2">>, <<"0", "3">>, <<"0", "4">>}
                THEN Err("Only publickeys with prefixes 02/03/04 are allowed")
                ELSE single(PublicKey_from_str(key_part))
        with_parsed(parsed) ==
            IF ~parsed.ok THEN parsed ELSE with_key_part(parsed.val[1], parsed.val[2])
    IN  IF Len(s) < MinPublicKeyLen
        THEN Err("Key too short (<66 char), doesn't match any format")
        ELSE with_parsed(parse_xkey_origin(s))

\* the longest key part DescriptorSecretKey::from_str reads as a WIF key
MaxWifLen == 52

\* FromStr for DescriptorSecretKey
DescriptorSecretKey_from_str(s) ==
    LET with_key_part(key_part, origin) ==
            LET single(key) ==
                    IF ~key.ok THEN Err("Error while parsing a WIF private key")
                    ELSE Ok(DescriptorSinglePriv(None, key.val))
                xprv(deriv) ==
                    IF ~deriv.ok THEN deriv
                    ELSE Ok(DescriptorXKey("XPrv", origin,
                                           deriv.val[1], deriv.val[2], deriv.val[3]))
            IN  IF Len(key_part) <= MaxWifLen THEN single(PrivateKey_from_str(key_part))
                ELSE xprv(parse_xkey_deriv("ExtendedPrivKey", key_part))
        with_parsed(parsed) ==
            IF ~parsed.ok THEN parsed ELSE with_key_part(parsed.val[1], parsed.val[2])
    IN  with_parsed(parse_xkey_origin(s))

(***************************************************************************)
(* Serializing.                                                            *)
(***************************************************************************)
\* fmt_derivation_path: "/" and the child number, for every step
RECURSIVE fmt_derivation_path(_)
fmt_derivation_path(path) ==
    IF path = <<>> THEN <<>>
    ELSE <<"/">> \o ChildNumber_fmt(Head(path)) \o fmt_derivation_path(Tail(path))

\* maybe_fmt_master_id that writes the fingerprint without the origin's path
maybe_fmt_master_id_fingerprint_only(origin) ==
    IF origin # None
    THEN LET master_id == origin[1][1]
         IN  <<"[">> \o LowerHex02(master_id[1]) \o LowerHex02(master_id[2])
                     \o LowerHex02(master_id[3]) \o LowerHex02(master_id[4]) \o <<"]">>
    ELSE <<>>

\* maybe_fmt_master_id
maybe_fmt_master_id(origin) ==
    IF origin # None
    THEN LET master_id == origin[1][1]
             master_deriv == origin[1][2]
         IN  <<"[">> \o LowerHex02(master_id[1]) \o LowerHex02(master_id[2])
                     \o LowerHex02(master_id[3]) \o LowerHex02(master_id[4])
                     \o fmt_derivation_path(master_deriv) \o <<"]">>
    ELSE <<>>

\* fmt::Display for DescriptorPublicKey
DescriptorPublicKey_fmt(self) ==
    IF self.variant = "SinglePub"
    THEN maybe_fmt_master_id(self.origin) \o PublicKey_fmt(self.key)
    ELSE maybe_fmt_master_id(self.origin) \o XKey_fmt(self.xkey)
             \o fmt_derivation_path(self.derivation_path)
             \o (IF self.is_wildcard THEN <<"/", "*">> ELSE <<>>)

\* fmt::Display for DescriptorSecretKey
DescriptorSecretKey_fmt(self) ==
    IF self.variant = "SinglePriv"
    THEN maybe_fmt_master_id(self.origin) \o PrivateKey_fmt(self.key)
    ELSE maybe_fmt_master_id(self.origin) \o XKey_fmt(self.xkey)
             \o fmt_derivation_path(self.derivation_path)
             \o (IF self.is_wildcard THEN <<"/", "*">> ELSE <<>>)

(***************************************************************************)
(* Private to public conversion.                                           *)
(***************************************************************************)
\* DescriptorSinglePriv::as_public
DescriptorSinglePriv_as_public(self) ==
    Ok(DescriptorSinglePub(self.origin, PrivateKey_public_key(self.key)))

\* public_suffix_len counting every normal step, not only the trailing ones
public_suffix_len_all_normal(path) == Cardinality({i \in 1..Len(path) : is_normal(path[i])})

\* rev().take_while(|c| c.is_normal()).count()
public_suffix_len(path) ==
    LET stop == {i \in 1..Len(path) : ~is_normal(path[i])}
    IN  IF stop = {} THEN Len(path)
        ELSE Len(path) - (CHOOSE i \in stop : \A j \in stop : j <= i)

\* as_public that keeps the hardened steps in derivation_path as well
DescriptorXKey_as_public_path_kept(self, secp_ok) ==
    LET path_len == Len(self.derivation_path)
        suffix_len == public_suffix_len(self.derivation_path)
        deriv_on_hardened == SubSeq(self.derivation_path, 1, path_len - suffix_len)
        derived_xprv == derive_priv(self.xkey, deriv_on_hardened, secp_ok)
        xpub == ExtendedPubKey_from_private(derived_xprv.val)
        origin == IF self.origin # None
                  THEN Some(<<self.origin[1][1], self.origin[1][2] \o deriv_on_hardened>>)
                  ELSE IF deriv_on_hardened # <<>>
                  THEN Some(<<xkey_fingerprint(self.xkey), deriv_on_hardened>>)
                  ELSE self.origin
    IN  IF ~derived_xprv.ok THEN Err("Unable to derive the hardened steps")
        ELSE Ok(DescriptorXKey("XPub", origin, xpub, self.derivation_path, self.is_wildcard))

\* as_public that leaves an existing origin as it is
DescriptorXKey_as_public_origin_kept(self, secp_ok) ==
    LET path_len == Len(self.derivation_path)
        suffix_len == public_suffix_len(self.derivation_path)
        derivation_path == SubSeq(self.derivation_path, path_len - suffix_len + 1, path_len)
        deriv_on_hardened == SubSeq(self.derivation_path, 1, path_len - suffix_len)
        derived_xprv == derive_priv(self.xkey, deriv_on_hardened, secp_ok)
        xpub == ExtendedPubKey_from_private(derived_xprv.val)
        origin == IF self.origin = None /\ deriv_on_hardened # <<>>
                  THEN Some(<<xkey_fingerprint(self.xkey), deriv_on_hardened>>)
                  ELSE self.origin
    IN  IF ~derived_xprv.ok THEN Err("Unable to derive the hardened steps")
        ELSE Ok(DescriptorXKey("XPub", origin, xpub, derivation_path, self.is_wildcard))

\* as_public that takes the fingerprint of a new origin after the derivation
DescriptorXKey_as_public_derived_fingerprint(self, secp_ok) ==
    LET path_len == Len(self.derivation_path)
        suffix_len == public_suffix_len(self.derivation_path)
        derivation_path == SubSeq(self.derivation_path, path_len - suffix_len + 1, path_len)
        deriv_on_hardened == SubSeq(self.derivation_path, 1, path_len - suffix_len)
        derived_xprv == derive_priv(self.xkey, deriv_on_hardened, secp_ok)
        xpub == ExtendedPubKey_from_private(derived_xprv.val)
        origin == IF self.origin # None
                  THEN Some(<<self.origin[1][1], self.origin[1][2] \o deriv_on_hardened>>)
                  ELSE IF deriv_on_hardened # <<>>
                  THEN Some(<<xkey_fingerprint(derived_xprv.val), deriv_on_hardened>>)
                  ELSE self.origin
    IN  IF ~derived_xprv.ok THEN Err("Unable to derive the hardened steps")
        ELSE Ok(DescriptorXKey("XPub", origin, xpub, derivation_path, self.is_wildcard))

\* DescriptorXKey<bip32::ExtendedPrivKey>::as_public
DescriptorXKey_as_public(self, secp_ok) ==
    LET path_len == Len(self.derivation_path)
        suffix_len == public_suffix_len(self.derivation_path)
        derivation_path == SubSeq(self.derivation_path, path_len - suffix_len + 1, path_len)
        deriv_on_hardened == SubSeq(self.derivation_path, 1, path_len - suffix_len)
        derived_xprv == derive_priv(self.xkey, deriv_on_hardened, secp_ok)
        xpub == ExtendedPubKey_from_private(derived_xprv.val)
        origin == IF self.origin # None
                  THEN Some(<<self.origin[1][1], self.origin[1][2] \o deriv_on_hardened>>)
                  ELSE IF deriv_on_hardened # <<>>
                  THEN Some(<<xkey_fingerprint(self.xkey), deriv_on_hardened>>)
                  ELSE self.origin
    IN  IF ~derived_xprv.ok THEN Err("Unable to derive the hardened steps")
        ELSE Ok(DescriptorXKey("XPub", origin, xpub, derivation_path, self.is_wildcard))

\* DescriptorSecretKey::as_public
as_public(self, secp_ok) ==
    IF self.variant = "SinglePriv" THEN DescriptorSinglePriv_as_public(self)
    ELSE DescriptorXKey_as_public(self, secp_ok)

(***************************************************************************)
(* Wildcard derivation and matching.                                       *)
(***************************************************************************)
\* derive that appends the child number and leaves the wildcard in place
derive_keeps_wildcard(self, child_number) ==
    IF self.variant = "SinglePub" THEN self
    ELSE IF self.is_wildcard
    THEN DescriptorXKey("XPub", self.origin, self.xkey,
                        Append(self.derivation_path, child_number), TRUE)
    ELSE self

\* derive that appends the child number whether or not there is a wildcard
derive_always_appends(self, child_number) ==
    IF self.variant = "SinglePub" THEN self
    ELSE DescriptorXKey("XPub", self.origin, self.xkey,
                        Append(self.derivation_path, child_number), FALSE)

\* DescriptorPublicKey::derive
derive(self, child_number) ==
    IF self.variant = "SinglePub" THEN self
    ELSE IF self.is_wildcard
    THEN DescriptorXKey("XPub", self.origin, self.xkey,
                        Append(self.derivation_path, child_number), FALSE)
    ELSE self

\* ExtendedPubKey::derive_pub: a public key derives normal children only
derive_pub(xkey, path) ==
    IF \E i \in 1..Len(path) : ~is_normal(path[i]) THEN Err("CannotDeriveFromHardenedKey")
    ELSE Ok([xkey EXCEPT !.steps = @ \o path])

\* ToPublicKey::to_public_key with the child number of its context; the key
\* returned is the text of a static key or the extended public key that holds
\* the point, and a panic is an error
to_public_key(self, child_number) ==
    LET expect(derived) ==
            IF ~derived.ok THEN Err("Shouldn't fail, only normal derivations")
            ELSE Ok(derived.val)
        to_key(xpub) ==
            IF xpub.variant = "SinglePub" THEN Ok(xpub.key)
            ELSE IF xpub.is_wildcard THEN Err("assertion failed: !xpub.is_wildcard")
            ELSE expect(derive_pub(xpub.xkey, xpub.derivation_path))
    IN  to_key(derive(self, child_number))

\* matches that compares with the origin's path alone
matches_origin_path_only(self, keysource) ==
    LET fingerprint == keysource[1]
        path == keysource[2]
        compare_fingerprint == IF self.origin # None THEN self.origin[1][1]
                               ELSE xkey_fingerprint(self.xkey)
        compare_path == IF self.origin # None THEN self.origin[1][2]
                        ELSE self.derivation_path
        path_excluding_wildcard == IF self.is_wildcard /\ Len(path) > 0
                                   THEN SubSeq(path, 1, Len(path) - 1)
                                   ELSE path
    IN  IF compare_fingerprint = fingerprint /\ compare_path = path_excluding_wildcard
        THEN Some(path_excluding_wildcard)
        ELSE None

\* DescriptorXKey::matches, keysource = <<fingerprint, path>>
matches(self, keysource) ==
    LET fingerprint == keysource[1]
        path == keysource[2]
        compare_fingerprint == IF self.origin # None THEN self.origin[1][1]
                               ELSE xkey_fingerprint(self.xkey)
        compare_path == IF self.origin # None THEN self.origin[1][2] \o self.derivation_path
                        ELSE self.derivation_path
        path_excluding_wildcard == IF self.is_wildcard /\ Len(path) > 0
                                   THEN SubSeq(path, 1, Len(path) - 1)
                                   ELSE path
    IN  IF compare_fingerprint = fingerprint /\ compare_path = path_excluding_wildcard
        THEN Some(path_excluding_wildcard)
        ELSE None

(***************************************************************************)
(* The texts handed to the parsers.                                        *)
(***************************************************************************)
\* the tokens of a derivation path: 1, 1', 0h, *, *' and a token that is no index
PathTokens == {<<"1">>, <<"1", "'">>, <<"0", "h">>, <<"*">>, <<"*", "'">>, <<"x">>}

\* "/token" repeated at most n times
RECURSIVE PathTexts(_)
PathTexts(n) ==
    IF n = 0 THEN {<<>>}
    ELSE LET P == PathTexts(n - 1)
         IN  P \cup {p \o <<"/">> \o t : p \in P, t \in PathTokens}

\* "[2cbe2a6d]"
ORIGIN_2CBE == <<"[", "2", "c", "b", "e", "2", "a", "6", "d", "]">>

\* "[D34DB33F/1h]"
ORIGIN_D34D == <<"[", "D", "3", "4", "D", "B", "3", "3", "F", "/", "1", "h", "]">>

\* no origin, or a well-formed one
OriginTexts == {<<>>, ORIGIN_2CBE, ORIGIN_D34D}

\* extended keys with every derivation path text
XKeyInputs ==
    {o \o k \o p : o \in OriginTexts, k \in {XPUB6ERA, TPRV8ZGX}, p \in PathTexts(MaxPathTokens)}

\* static keys, well-formed and not
SingleKeyInputs ==
    {o \o k \o p : o \in OriginTexts,
                   k \in {PK03F287, PK03F287_UPPER, PK0777, WIF_KWDIBF, WIF_L32JTF},
                   p \in {<<>>, <<"/", "1">>}}

\* texts that are cut short, unprintable or have a malformed origin
MalformedInputs ==
    {<<>>, <<"[">>, <<"[", "d", "3", "4", "d", "b", "3", "3", "f">>}
    \cup {o \o k : o \in {<<"\t">>,
                          <<"[", "d", "3", "4", "d", "b", "3", "3", "f">>,
                          <<"[", "d", "3", "4", "d", "b", "]">>,
                          <<"[", "N", "o", "n", "H", "e", "x", "o", "r", "]">>,
                          <<"[", "d", "3", "4", "d", "b", "3", "3", "f", "/", "x", "]">>,
                          <<"[", "d", "3", "4", "d", "b", "3", "3", "f", "]", "]">>},
                   k \in {XPUB6ERA, TPRV8ZGX, PK03F287, WIF_KWDIBF}}
    \cup {k \o <<"]">> : k \in {XPUB6ERA, TPRV8ZGX, PK03F287, WIF_KWDIBF}}

\* texts with brackets after a well-formed origin, and origins left open
BracketInputs ==
    {o \o k \o b : o \in {ORIGIN_2CBE, ORIGIN_D34D},
                   k \in {XPUB6ERA, TPRV8ZGX, PK03F287, WIF_KWDIBF},
                   b \in {<<"]">>, <<"]", "]">>}}
    \cup {o \o b : o \in {ORIGIN_2CBE, ORIGIN_D34D}, b \in {<<"]">>, <<"\t", "]">>}}
    \cup {o \o <<"\t">> \o k \o <<"]">> : o \in {ORIGIN_2CBE, ORIGIN_D34D},
                                         k \in {XPUB6ERA, WIF_KWDIBF}}
    \cup {<<"[", "d", "3", "4", "d", "b", "3", "3", "f", "/">> \o k :
              k \in {<<"x">>, <<"1", "h">>, XPUB6ERA, TPRV8ZGX, PK03F287, WIF_KWDIBF}}

Inputs == XKeyInputs \cup SingleKeyInputs \cup MalformedInputs \cup BracketInputs

\* the child numbers handed to derive: normal ones, as its contract demands
ChildNumbers == {Normal(0), Normal(1)}

\* the fingerprints 2cbe2a6d (that of the master tprv8Zgx) and d34db33f
ObsFingerprints == {<<44, 190, 42, 109>>, <<211, 77, 179, 63>>}

\* the steps of an observed path: the same index, normal and hardened
ObsSteps == {Normal(1), Hardened(1)}

RECURSIVE ObsPaths(_)
ObsPaths(n) ==
    IF n = 0 THEN {<<>>}
    ELSE LET P == ObsPaths(n - 1)
         IN  P \cup {Append(p, c) : p \in P, c \in ObsSteps}

\* the key sources handed to matches
KeySources == {<<f, p>> : f \in ObsFingerprints, p \in ObsPaths(MaxObsLen)}

(***************************************************************************)
(* The state: the last call, its receiver, arguments and result, and the   *)
(* keys the caller holds.                                                  *)
(***************************************************************************)
VARIABLES
    op,         \* the last call
    input,      \* the text the caller holds
    sk,         \* the DescriptorSecretKey held, if any
    pk,         \* the DescriptorPublicKey held, if any
    made,       \* the call that made pk: "from_str", "as_public" or "derive"
    self,       \* the receiver of the last derive, matches or to_string
    child,      \* the child number handed to the last derive
    keysource,  \* the key source handed to the last matches
    ret,        \* what the last matches or to_public_key returned
    text,       \* what the last to_string returned
    err         \* the error of the last call, "" when it returned Ok

vars == <<op, input, sk, pk, made, self, child, keysource, ret, text, err>>

Init ==
    /\ op = "new"
    /\ input \in Inputs
    /\ sk = None
    /\ pk = None
    /\ made = "none"
    /\ self = None
    /\ child = None
    /\ keysource = None
    /\ ret = None
    /\ text = None
    /\ err = ""

\* DescriptorPublicKey::from_str(input), on a text not read yet
ParsePublic ==
    /\ op = "new"
    /\ \E r \in {DescriptorPublicKey_from_str(input)} :
           /\ pk' = IF r.ok THEN Some(r.val) ELSE None
           /\ err' = r.err
           /\ made' = IF r.ok THEN "from_str" ELSE "none"
    /\ op' = "public_from_str"
    /\ UNCHANGED input
    /\ sk' = None
    /\ self' = None
    /\ child' = None
    /\ keysource' = None
    /\ ret' = None
    /\ text' = None

\* DescriptorSecretKey::from_str(input), on a text not read yet
ParseSecret ==
    /\ op = "new"
    /\ \E r \in {DescriptorSecretKey_from_str(input)} :
           /\ sk' = IF r.ok THEN Some(r.val) ELSE None
           /\ err' = r.err
    /\ op' = "secret_from_str"
    /\ UNCHANGED input
    /\ made' = "none"
    /\ pk' = None
    /\ self' = None
    /\ child' = None
    /\ keysource' = None
    /\ ret' = None
    /\ text' = None

\* sk.as_public(secp)
AsPublic(secp_ok) ==
    /\ sk # None
    /\ \E r \in {as_public(sk[1], secp_ok)} :
           /\ pk' = IF r.ok THEN Some(r.val) ELSE None
           /\ err' = r.err
           /\ made' = IF r.ok THEN "as_public" ELSE "none"
    /\ op' = "as_public"
    /\ UNCHANGED input
    /\ self' = None
    /\ child' = None
    /\ keysource' = None
    /\ ret' = None
    /\ text' = None
    /\ UNCHANGED sk

\* pk.derive(child_number)
Derive(child_number) ==
    /\ pk # None
    /\ is_normal(child_number)
    /\ op' = "derive"
    /\ self' = pk
    /\ child' = Some(child_number)
    /\ pk' = Some(derive(pk[1], child_number))
    /\ made' = "derive"
    /\ err' = ""
    /\ UNCHANGED input
    /\ keysource' = None
    /\ ret' = None
    /\ text' = None
    /\ UNCHANGED sk

\* xpub.matches(ks, secp), on the extended key held in pk
Matches(ks) ==
    /\ pk # None
    /\ pk[1].variant = "XPub"
    /\ op' = "matches"
    /\ self' = pk
    /\ keysource' = Some(ks)
    /\ ret' = matches(pk[1], ks)
    /\ err' = ""
    /\ UNCHANGED input
    /\ child' = None
    /\ text' = None
    /\ UNCHANGED <<sk, pk, made>>

\* pk.to_public_key(DescriptorPublicKeyCtx::new(secp, child_number))
ToPublicKey(child_number) ==
    /\ pk # None
    /\ is_normal(child_number)
    /\ \E r \in {to_public_key(pk[1], child_number)} :
           /\ ret' = IF r.ok THEN Some(r.val) ELSE None
           /\ err' = r.err
    /\ op' = "to_public_key"
    /\ self' = pk
    /\ child' = Some(child_number)
    /\ UNCHANGED input
    /\ keysource' = None
    /\ text' = None
    /\ UNCHANGED <<sk, pk, made>>

\* pk.to_string()
PublicToString ==
    /\ pk # None
    /\ pk[1].variant = "XPub" => HasText(pk[1].xkey)
    /\ op' = "public_to_string"
    /\ self' = pk
    /\ text' = Some(DescriptorPublicKey_fmt(pk[1]))
    /\ err' = ""
    /\ UNCHANGED input
    /\ child' = None
    /\ keysource' = None
    /\ ret' = None
    /\ UNCHANGED <<sk, pk, made>>

\* sk.to_string()
SecretToString ==
    /\ sk # None
    /\ op' = "secret_to_string"
    /\ self' = sk
    /\ text' = Some(DescriptorSecretKey_fmt(sk[1]))
    /\ err' = ""
    /\ UNCHANGED input
    /\ child' = None
    /\ keysource' = None
    /\ ret' = None
    /\ UNCHANGED <<sk, pk, made>>

\* DescriptorPublicKey::from_str(pk.to_string()), pk being the key just written
ReparsePublic ==
    /\ op = "public_to_string"
    /\ \E r \in {DescriptorPublicKey_from_str(text[1])} :
           /\ pk' = IF r.ok THEN Some(r.val) ELSE None
           /\ err' = r.err
    /\ op' = "public_from_str_to_string"
    /\ self' = pk
    /\ child' = None
    /\ keysource' = None
    /\ ret' = None
    /\ UNCHANGED <<input, text, sk, made>>

\* DescriptorSecretKey::from_str(sk.to_string()), sk being the key just written
ReparseSecret ==
    /\ op = "secret_to_string"
    /\ \E r \in {DescriptorSecretKey_from_str(text[1])} :
           /\ sk' = IF r.ok THEN Some(r.val) ELSE None
           /\ err' = r.err
    /\ op' = "secret_from_str_to_string"
    /\ self' = sk
    /\ child' = None
    /\ keysource' = None
    /\ ret' = None
    /\ UNCHANGED <<input, text, pk, made>>

Next ==
    \/ ParsePublic
    \/ ParseSecret
    \/ \E secp_ok \in BOOLEAN : AsPublic(secp_ok)
    \/ \E c \in ChildNumbers : Derive(c)
    \/ \E ks \in KeySources : Matches(ks)
    \/ \E c \in ChildNumbers : ToPublicKey(c)
    \/ PublicToString
    \/ SecretToString
    \/ ReparsePublic
    \/ ReparseSecret

Spec == Init /\ [][Next]_vars

(***************************************************************************)
(* Reference notions of the claims, stated on the values and on the text   *)
(* without the program's operators.                                        *)
(***************************************************************************)
\* the position of the last hardened step of a path, 0 when it has none
LastHardened(path) ==
    LET H == {i \in 1..Len(path) : path[i].hardened}
    IN  IF H = {} THEN 0 ELSE CHOOSE i \in H : \A j \in H : j <= i

\* the steps up to and including the last hardened one
HardenedPrefix(path) == SubSeq(path, 1, LastHardened(path))

\* a state right after a successful as_public on an extended private key
ConvertedXPrv ==
    /\ op = "as_public"
    /\ sk # None
    /\ sk[1].variant = "XPrv"
    /\ pk # None

(***************************************************************************)
(* C1: as_public on an extended private key k returns a key whose          *)
(* derivation_path is the longest suffix of k.derivation_path made of      *)
(* normal steps only; the steps derived on the private key are exactly the *)
(* steps before that suffix, so that they followed by the returned path    *)
(* give k.derivation_path; is_wildcard is copied.                          *)
(***************************************************************************)
C1_PublicSuffixSplit ==
    ConvertedXPrv =>
        LET k == sk[1]
            r == pk[1]
            n == Len(k.derivation_path)
            m == Len(r.derivation_path)
            derived == SubSeq(r.xkey.steps, Len(k.xkey.steps) + 1, Len(r.xkey.steps))
        IN  /\ r.variant = "XPub"
            /\ m <= n
            /\ \A i \in 1..m : r.derivation_path[i] = k.derivation_path[n - m + i]
            /\ \A i \in 1..m : ~r.derivation_path[i].hardened
            /\ m < n => k.derivation_path[n - m].hardened
            /\ r.xkey.master = k.xkey.master
            /\ ~r.xkey.private
            /\ SubSeq(r.xkey.steps, 1, Len(k.xkey.steps)) = k.xkey.steps
            /\ derived = SubSeq(k.derivation_path, 1, n - m)
            /\ derived \o r.derivation_path = k.derivation_path
            /\ r.is_wildcard = k.is_wildcard

\* a key whose path has a normal step, then a hardened one, then a normal one
C1_Witness ==
    /\ ConvertedXPrv
    /\ Len(sk[1].derivation_path) = 3
    /\ ~sk[1].derivation_path[1].hardened
    /\ sk[1].derivation_path[2].hardened
    /\ ~sk[1].derivation_path[3].hardened
    /\ Len(pk[1].derivation_path) = 1

(***************************************************************************)
(* C2: as_public on an extended private key with origin (fp, path) returns *)
(* a key with origin (fp, path followed by the hardened prefix of          *)
(* k.derivation_path), which is k's origin when that prefix is empty.      *)
(***************************************************************************)
C2_OriginExtended ==
    (ConvertedXPrv /\ sk[1].origin # None) =>
        /\ pk[1].origin # None
        /\ pk[1].origin[1][1] = sk[1].origin[1][1]
        /\ pk[1].origin[1][2] = sk[1].origin[1][2] \o HardenedPrefix(sk[1].derivation_path)
        /\ HardenedPrefix(sk[1].derivation_path) = <<>> => pk[1].origin = sk[1].origin

\* an origin with a path, extended by a hardened prefix of two steps
C2_Witness ==
    /\ ConvertedXPrv
    /\ sk[1].origin # None
    /\ sk[1].origin[1][2] # <<>>
    /\ Len(HardenedPrefix(sk[1].derivation_path)) = 2
    /\ Len(pk[1].origin[1][2]) = Len(sk[1].origin[1][2]) + 2

(***************************************************************************)
(* C3: as_public on an extended private key without origin returns a key   *)
(* with origin (fingerprint of k's own extended key, hardened prefix) when *)
(* the hardened prefix is not empty, and a key without origin and with     *)
(* k.derivation_path in full when it is empty.                             *)
(***************************************************************************)
C3_OriginSynthesized ==
    (ConvertedXPrv /\ sk[1].origin = None) =>
        IF HardenedPrefix(sk[1].derivation_path) # <<>>
        THEN /\ pk[1].origin # None
             /\ pk[1].origin[1][1] = xkey_fingerprint(sk[1].xkey)
             /\ pk[1].origin[1][2] = HardenedPrefix(sk[1].derivation_path)
        ELSE /\ pk[1].origin = None
             /\ pk[1].derivation_path = sk[1].derivation_path

\* the master key tprv8Zgx with a hardened prefix: the origin names 2cbe2a6d
C3_Witness ==
    /\ ConvertedXPrv
    /\ sk[1].origin = None
    /\ sk[1].xkey.steps = <<>>
    /\ HardenedPrefix(sk[1].derivation_path) # <<>>
    /\ pk[1].origin # None
    /\ pk[1].origin[1][1] = <<44, 190, 42, 109>>
    /\ pk[1].xkey.steps # <<>>

(***************************************************************************)
(* C4 (I1): the derivation_path of an XPub has no hardened step, whether   *)
(* the key was read from text, converted from a secret key read from text  *)
(* or derived, any number of times, from such a key.                       *)
(***************************************************************************)
C4_NoHardenedOnXPub ==
    (pk # None /\ pk[1].variant = "XPub") =>
        \A i \in 1..Len(pk[1].derivation_path) : ~pk[1].derivation_path[i].hardened

\* a child derived from the conversion of a secret key with a hardened step
C4_Witness ==
    /\ op = "derive"
    /\ sk # None
    /\ sk[1].variant = "XPrv"
    /\ LastHardened(sk[1].derivation_path) > 0
    /\ self[1].is_wildcard
    /\ Len(pk[1].derivation_path) = Len(self[1].derivation_path) + 1

(***************************************************************************)
(* C5: matches returns Some(p) exactly when the observed fingerprint is    *)
(* the reference fingerprint and p is the reference path, step by step in  *)
(* index and marking; the reference is the origin's fingerprint and the    *)
(* origin's path followed by derivation_path, or without origin the key's  *)
(* own fingerprint and derivation_path; p is the observed path without its *)
(* final step for a wildcard key (the empty path stays empty) and the      *)
(* observed path otherwise.  Otherwise matches returns None.               *)
(***************************************************************************)
C5_MatchesIff ==
    op = "matches" =>
        LET k == self[1]
            observed_fp == keysource[1][1]
            observed_path == keysource[1][2]
            reference_fp == IF k.origin = None THEN xkey_fingerprint(k.xkey) ELSE k.origin[1][1]
            reference_path == IF k.origin = None THEN k.derivation_path
                              ELSE k.origin[1][2] \o k.derivation_path
            p == IF k.is_wildcard THEN SubSeq(observed_path, 1, Len(observed_path) - 1)
                 ELSE observed_path
            same == /\ Len(p) = Len(reference_path)
                    /\ \A i \in 1..Len(p) : /\ p[i].index = reference_path[i].index
                                            /\ p[i].hardened = reference_path[i].hardened
        IN  IF observed_fp = reference_fp /\ same THEN ret = Some(p) ELSE ret = None

\* a wildcard key with an origin path and a path of its own, matched
C5_Witness ==
    /\ op = "matches"
    /\ self[1].is_wildcard
    /\ self[1].origin # None
    /\ self[1].origin[1][2] # <<>>
    /\ self[1].derivation_path # <<>>
    /\ ret # None
    /\ Len(ret[1]) = Len(keysource[1][2]) - 1

(***************************************************************************)
(* The text handed to the parser, read without the parser: the key part    *)
(* after the origin, the key literal and the tokens of the path.           *)
(***************************************************************************)
\* the text after the first ']' of a text that opens with '[', else the text
KeyPart(s) ==
    LET close == {i \in 1..Len(s) : s[i] = "]"}
    IN  IF s # <<>> /\ s[1] = "[" /\ close # {}
        THEN SubSeq(s, (CHOOSE i \in close : \A j \in close : i <= j) + 1, Len(s))
        ELSE s

\* the '/'-separated tokens that follow the key literal of the input
InputPath == Tail(Split(KeyPart(input), "/"))

\* the input's key literal is an extended public (private) key
InputIsXPub == \E e \in XKeyTable : ~e.xkey.private /\ e.text = Head(Split(KeyPart(input), "/"))

InputIsXPrv == \E e \in XKeyTable : e.xkey.private /\ e.text = Head(Split(KeyPart(input), "/"))

\* a token that is a hardened child number
HardenedStepToken(t) == ChildNumber_from_str(t).ok /\ ChildNumber_from_str(t).val.hardened

HasHardenedStep(toks) == \E i \in 1..Len(toks) : HardenedStepToken(toks[i])

\* every token is a child number, but for a last token that may be the wildcard
WellFormedPath(toks) ==
    \A i \in 1..Len(toks) : ChildNumber_from_str(toks[i]).ok \/ (i = Len(toks) /\ toks[i] = <<"*">>)

\* the key the last from_str returned, None when it returned an error
Parsed == IF op = "public_from_str" THEN pk ELSE sk

Rejected == Parsed = None /\ err # ""

\* the origin a well-formed origin prefix of the model's inputs denotes
WrittenOrigin(s) ==
    IF Len(s) >= Len(ORIGIN_2CBE) /\ SubSeq(s, 1, Len(ORIGIN_2CBE)) = ORIGIN_2CBE
    THEN Some(<<<<44, 190, 42, 109>>, <<>>>>)
    ELSE IF Len(s) >= Len(ORIGIN_D34D) /\ SubSeq(s, 1, Len(ORIGIN_D34D)) = ORIGIN_D34D
    THEN Some(<<<<211, 77, 179, 63>>, <<Hardened(1)>>>>)
    ELSE None

(***************************************************************************)
(* C6, as stated: parsing an extended public key text whose path has a     *)
(* hardened step, whatever the other tokens are, fails with the error      *)
(* "Hardened derivation is currently not supported."; the same path on an  *)
(* extended private key text is accepted by the secret key parser.         *)
(***************************************************************************)
C6_AsStated ==
    /\ (op = "public_from_str" /\ InputIsXPub /\ HasHardenedStep(InputPath)) =>
           /\ pk = None
           /\ err = "Hardened derivation is currently not supported."
    /\ (op = "secret_from_str" /\ InputIsXPrv /\ HasHardenedStep(InputPath)) =>
           /\ sk # None
           /\ err = ""

(***************************************************************************)
(* C6, amended: parsing an extended public key text whose path has a       *)
(* hardened step always fails.  When every token of the path is a child    *)
(* number or a final wildcard the error is "Hardened derivation is         *)
(* currently not supported." and the same path on an extended private key  *)
(* text is accepted by the secret key parser, hardened steps included;     *)
(* otherwise both parsers reject the path with the error of the first      *)
(* token the scan of the path rejects, one of the three errors of a path.  *)
(***************************************************************************)
C6_HardenedOnXPubRejected ==
    /\ (op = "public_from_str" /\ InputIsXPub /\ HasHardenedStep(InputPath)) =>
           /\ pk = None
           /\ IF WellFormedPath(InputPath)
              THEN err = "Hardened derivation is currently not supported."
              ELSE err \in {"Hardened derivation is currently not supported.",
                            "'*' may only appear as last element in a derivation path.",
                            "Error while parsing key derivation path"}
    /\ (op = "secret_from_str" /\ InputIsXPrv /\ HasHardenedStep(InputPath)) =>
           IF WellFormedPath(InputPath)
           THEN /\ sk # None
                /\ err = ""
                /\ sk[1].variant = "XPrv"
                /\ \E i \in 1..Len(sk[1].derivation_path) : sk[1].derivation_path[i].hardened
           ELSE /\ sk = None
                /\ err \in {"Hardened derivation is currently not supported.",
                              "'*' may only appear as last element in a derivation path.",
                              "Error while parsing key derivation path"}

\* an extended public key with a normal step, a hardened step and a wildcard
C6_Witness ==
    /\ op = "public_from_str"
    /\ InputIsXPub
    /\ Len(InputPath) = 3
    /\ ~HardenedStepToken(InputPath[1])
    /\ HardenedStepToken(InputPath[2])
    /\ InputPath[3] = <<"*">>
    /\ WellFormedPath(InputPath)
    /\ pk = None
    /\ err = "Hardened derivation is currently not supported."

(***************************************************************************)
(* C7: on an extended key text, for the public and for the secret parser,  *)
(* a path in which a token follows a "*" token is rejected, a path with    *)
(* the token "*'" at any position is rejected, and an accepted key has     *)
(* is_wildcard only if "*" was the last token of the path.                 *)
(***************************************************************************)
C7_WildcardExclusive ==
    (op \in {"public_from_str", "secret_from_str"} /\ (InputIsXPub \/ InputIsXPrv)) =>
        /\ (\E i \in 1..(Len(InputPath) - 1) : InputPath[i] = <<"*">>) => Rejected
        /\ (\E i \in 1..Len(InputPath) : InputPath[i] = <<"*", "'">>) => Rejected
        /\ (Parsed # None /\ Parsed[1].is_wildcard) =>
               /\ InputPath # <<>>
               /\ InputPath[Len(InputPath)] = <<"*">>
               /\ \A i \in 1..(Len(InputPath) - 1) : InputPath[i] # <<"*">>

\* an extended private key whose path goes on after the wildcard
C7_Witness ==
    /\ op = "secret_from_str"
    /\ InputIsXPrv
    /\ Len(InputPath) = 3
    /\ InputPath[2] = <<"*">>
    /\ ChildNumber_from_str(InputPath[1]).ok
    /\ ChildNumber_from_str(InputPath[3]).ok
    /\ Rejected
    /\ err = "'*' may only appear as last element in a derivation path."

(***************************************************************************)
(* C8: the text written from a key that from_str returned is accepted by   *)
(* the same from_str and gives a key equal to it in variant, origin, key,  *)
(* derivation_path and is_wildcard; every key from_str returns can be      *)
(* written.                                                                *)
(***************************************************************************)
C8_RoundTrip ==
    /\ (op = "public_from_str" /\ pk # None /\ pk[1].variant = "XPub") => HasText(pk[1].xkey)
    /\ (op = "secret_from_str" /\ sk # None /\ sk[1].variant = "XPrv") => HasText(sk[1].xkey)
    /\ (op = "public_from_str_to_string" /\ made = "from_str") =>
           /\ err = ""
           /\ pk = self
    /\ op = "secret_from_str_to_string" =>
           /\ err = ""
           /\ sk = self

\* a wildcard key whose origin is written in another form than it was read in
C8_Witness ==
    /\ op = "public_from_str_to_string"
    /\ made = "from_str"
    /\ self # None
    /\ self[1].variant = "XPub"
    /\ self[1].origin # None
    /\ self[1].origin[1][2] # <<>>
    /\ self[1].derivation_path # <<>>
    /\ self[1].is_wildcard
    /\ text[1] # input
    /\ pk = self

(***************************************************************************)
(* C9: the origin written in the text is the origin of the key from_str    *)
(* returns, for SinglePub, XPub, SinglePriv and XPrv alike, and a text     *)
(* without origin gives a key without origin; as_public of a static        *)
(* private key read from a text with an origin gives a SinglePub with that *)
(* origin.                                                                 *)
(***************************************************************************)
C9_WrittenOriginIsOrigin ==
    /\ (op \in {"public_from_str", "secret_from_str"} /\ Parsed # None) =>
           Parsed[1].origin = WrittenOrigin(input)
    /\ (op = "as_public" /\ sk # None /\ sk[1].variant = "SinglePriv" /\ pk # None) =>
           /\ pk[1].variant = "SinglePub"
           /\ pk[1].origin = WrittenOrigin(input)

(***************************************************************************)
(* C10: derive on a SinglePub or on an XPub without wildcard returns a key *)
(* equal to the receiver; derive never returns a key with a wildcard, so   *)
(* every derive after the first returns its receiver.                      *)
(***************************************************************************)
C10_IdempotentDerive ==
    /\ (op = "derive" /\ (self[1].variant = "SinglePub" \/ ~self[1].is_wildcard)) => pk = self
    /\ (op = "derive" /\ pk[1].variant = "XPub") => ~pk[1].is_wildcard

\* a second derive, on the child a first derive made of a wildcard key
C10_Witness ==
    /\ op = "derive"
    /\ made = "derive"
    /\ InputIsXPub
    /\ InputPath # <<>>
    /\ InputPath[Len(InputPath)] = <<"*">>
    /\ self[1].variant = "XPub"
    /\ ~self[1].is_wildcard
    /\ Len(self[1].derivation_path) = Len(InputPath)
    /\ child = Some(Normal(1))
    /\ pk = self

(***************************************************************************)
(* Origins and brackets of the input, read without the parser.             *)
(***************************************************************************)
\* the well-formed origins the inputs open with
WellFormedOrigins ==
    {ORIGIN_2CBE, ORIGIN_D34D, <<"[", "d", "3", "4", "d", "b", "3", "3", "f", "]">>}

\* the input opens with a well-formed origin and has a ']' after it
BracketAfterOrigin ==
    \E o \in WellFormedOrigins :
        /\ Len(input) > Len(o)
        /\ SubSeq(input, 1, Len(o)) = o
        /\ \E i \in (Len(o) + 1)..Len(input) : input[i] = "]"

\* the input has a byte below 20 or above 127
HasUnprintable == \E i \in 1..Len(input) : Ord[input[i]] < 20 \/ Ord[input[i]] > 127

(***************************************************************************)
(* C11, as stated: for an input that opens with a well-formed origin and   *)
(* has a further ']' after it, the public and the secret parser return the *)
(* error "Multiple ']' in Descriptor Public Key" and no key, however many  *)
(* ']' follow and whatever the other characters are.                       *)
(***************************************************************************)
C11_AsStated ==
    (op \in {"public_from_str", "secret_from_str"} /\ BracketAfterOrigin) =>
        /\ Parsed = None
        /\ err = "Multiple ']' in Descriptor Public Key"

(***************************************************************************)
(* C11, amended: such an input is rejected by both parsers, without a key. *)
(* The error is "Multiple ']' in Descriptor Public Key" when the input has *)
(* no unprintable character and, for the public parser, at least 66        *)
(* characters; the public parser answers a shorter input with the          *)
(* too-short error, and both answer an unprintable character with the      *)
(* unprintable-character error, before any bracket is looked at.           *)
(***************************************************************************)
C11_ExtraBracketRejected ==
    /\ (op = "public_from_str" /\ BracketAfterOrigin) =>
           /\ pk = None
           /\ err = IF Len(input) < 66
                    THEN "Key too short (<66 char), doesn't match any format"
                    ELSE IF HasUnprintable THEN "Encountered an unprintable character"
                    ELSE "Multiple ']' in Descriptor Public Key"
    /\ (op = "secret_from_str" /\ BracketAfterOrigin) =>
           /\ sk = None
           /\ err = IF HasUnprintable THEN "Encountered an unprintable character"
                    ELSE "Multiple ']' in Descriptor Public Key"

\* an origin, an extended public key and two closing brackets after it
C11_Witness ==
    /\ op = "public_from_str"
    /\ BracketAfterOrigin
    /\ Len(input) >= 66
    /\ ~HasUnprintable
    /\ Len(input) > 2
    /\ input[Len(input)] = "]"
    /\ input[Len(input) - 1] = "]"
    /\ Contains(input, <<"x", "p", "u", "b">>)
    /\ pk = None
    /\ err = "Multiple ']' in Descriptor Public Key"

(***************************************************************************)
(* The absolute position of an extended key: the fingerprint and the path  *)
(* a key source is compared with.                                          *)
(***************************************************************************)
\* the origin's path followed by derivation_path, or derivation_path alone
ReferencePath(k) ==
    IF k.origin = None THEN k.derivation_path ELSE k.origin[1][2] \o k.derivation_path

\* the origin's fingerprint, or the fingerprint of the key's own extended key
ReferenceFingerprint(k) ==
    IF k.origin = None THEN xkey_fingerprint(k.xkey) ELSE k.origin[1][1]

(***************************************************************************)
(* C12: on a wildcard key matches removes exactly one final step of the    *)
(* observed path, so whenever it returns Some the observed path has one    *)
(* step more than the reference path; an empty observed path, which has no *)
(* step to remove, is no match.                                            *)
(***************************************************************************)
C12_WildcardAbsorbsOne ==
    (op = "matches" /\ self[1].is_wildcard) =>
        /\ ret # None => /\ Len(keysource[1][2]) = Len(ReferencePath(self[1])) + 1
                         /\ Len(ret[1]) = Len(keysource[1][2]) - 1
        /\ keysource[1][2] = <<>> => ret = None

(***************************************************************************)
(* C13: an input that opens an origin with '[' and has no ']' is rejected  *)
(* with the error "Unclosed '['", at the first violation: the input has no *)
(* unprintable character and, for the public parser, is not too short, so  *)
(* that no earlier check answers.  That error is another one than the      *)
(* errors of a fingerprint of the wrong length, of a malformed origin path *)
(* and of a missing key after the origin.                                  *)
(***************************************************************************)
C13_UnclosedBracketError ==
    (/\ op \in {"public_from_str", "secret_from_str"}
     /\ op = "public_from_str" => Len(input) >= 66
     /\ ~HasUnprintable
     /\ input # <<>>
     /\ input[1] = "["
     /\ \A i \in 1..Len(input) : input[i] # "]") =>
        /\ Parsed = None
        /\ err = "Unclosed '['"
        /\ err \notin {"Master fingerprint should be 8 characters long",
                       "Error while parsing master derivation path",
                       "No key after origin."}

(***************************************************************************)
(* C14: derive on a wildcard XPub with a normal child number returns an    *)
(* XPub with the same origin and extended key, without wildcard, whose     *)
(* derivation_path is the receiver's with the child number appended; no    *)
(* derive returns a wildcard key, so the assertion of to_public_key holds  *)
(* on every call and the key returned is the one at the derived path.      *)
(***************************************************************************)
C14_DeriveClearsWildcard ==
    /\ (op = "derive" /\ self[1].variant = "XPub" /\ self[1].is_wildcard) =>
           /\ ~child[1].hardened
           /\ pk[1].variant = "XPub"
           /\ pk[1].origin = self[1].origin
           /\ pk[1].xkey = self[1].xkey
           /\ ~pk[1].is_wildcard
           /\ Len(pk[1].derivation_path) = Len(self[1].derivation_path) + 1
           /\ SubSeq(pk[1].derivation_path, 1, Len(self[1].derivation_path))
                  = self[1].derivation_path
           /\ pk[1].derivation_path[Len(pk[1].derivation_path)] = child[1]
    /\ (op = "derive" /\ pk[1].variant = "XPub") => pk[1].is_wildcard = FALSE
    /\ op = "to_public_key" =>
           /\ err = ""
           /\ ret # None
           /\ self[1].variant = "XPub" =>
                  /\ ret[1].master = self[1].xkey.master
                  /\ ret[1].steps = self[1].xkey.steps \o self[1].derivation_path
                                        \o (IF self[1].is_wildcard THEN <<child[1]>> ELSE <<>>)

\* to_public_key on a wildcard key with a path of its own
C14_Witness ==
    /\ op = "to_public_key"
    /\ self[1].variant = "XPub"
    /\ self[1].is_wildcard
    /\ self[1].derivation_path # <<>>
    /\ child = Some(Normal(1))
    /\ err = ""
    /\ Len(ret[1].steps) = Len(self[1].xkey.steps) + Len(self[1].derivation_path) + 1

(***************************************************************************)
(* C15: as_public keeps the absolute position of an extended private key   *)
(* k: the reference path and the reference fingerprint of the result are   *)
(* those of k; matches on the result returns Some for k's reference        *)
(* fingerprint with k's reference path, followed by any one step when k is *)
(* a wildcard key.                                                         *)
(***************************************************************************)
C15_AsPublicKeepsPosition ==
    /\ ConvertedXPrv =>
           /\ ReferencePath(pk[1]) = ReferencePath(sk[1])
           /\ ReferenceFingerprint(pk[1]) = ReferenceFingerprint(sk[1])
    /\ (/\ op = "matches"
        /\ made = "as_public"
        /\ sk # None
        /\ sk[1].variant = "XPrv"
        /\ keysource[1][1] = ReferenceFingerprint(sk[1])
        /\ \/ ~sk[1].is_wildcard /\ keysource[1][2] = ReferencePath(sk[1])
           \/ /\ sk[1].is_wildcard
              /\ Len(keysource[1][2]) = Len(ReferencePath(sk[1])) + 1
              /\ SubSeq(keysource[1][2], 1, Len(ReferencePath(sk[1]))) = ReferencePath(sk[1])) =>
           ret = Some(ReferencePath(sk[1]))

\* a wildcard key without origin whose hardened step went into a new origin
C15_Witness ==
    /\ op = "matches"
    /\ made = "as_public"
    /\ sk # None
    /\ sk[1].variant = "XPrv"
    /\ sk[1].is_wildcard
    /\ sk[1].origin = None
    /\ HardenedPrefix(sk[1].derivation_path) # <<>>
    /\ Len(sk[1].derivation_path) > Len(HardenedPrefix(sk[1].derivation_path))
    /\ self[1].origin # None
    /\ Len(keysource[1][2]) = Len(sk[1].derivation_path) + 1
    /\ ret = Some(ReferencePath(sk[1]))

=============================================================================
